---------------------------- MODULE Spec2Model ----------------------------
(***************************************************************************)
(* Model of src/components/ui/learning-journey.tsx: the Timeline          *)
(* navigator (unique-date ticks, proportional positions, hover tooltip,   *)
(* click-to-scroll) and the LearningJourney renderer (one article anchor  *)
(* per entry, handleScrollTo).                                            *)
(*                                                                         *)
(* Conventions                                                             *)
(*  - A BlockEntry is a record [id, date, rawDate]; title, kind, content  *)
(*    and video take no part in any computation of the file.              *)
(*  - rawDate is an ISO string "YYYY-MM-DDTHH:00:00.000Z", written as the *)
(*    tuple <<Y, M, D, H>>; the empty tuple is the empty string, which    *)
(*    new Date() cannot parse.                                            *)
(*  - A JavaScript number is a pair <<n, d>>: the rational n/d in lowest  *)
(*    terms with d > 0, NaN as <<0, 0>>, +-Infinity as <<+-1, 0>>.         *)
(*    Arithmetic is exact; IEEE rounding is not modelled.                 *)
(*  - getTime() is counted in hours, not milliseconds (TLC integers are   *)
(*    32 bits wide); every timestamp of the model is a whole hour and the *)
(*    only use of a timestamp is the quotient (t - start) / range, which  *)
(*    does not depend on the unit.                                        *)
(*  - Array indices are 0-based as in the source; sequences are 1-based,  *)
(*    so tick index i is element i + 1.                                   *)
(***************************************************************************)
EXTENDS Integers, Sequences, FiniteSets

\* Longest entry list the model passes to the component.
MaxLen == 3

\* Number of times the parent may hand over a new entries array.
MaxRef == 2

\* ------------------------------------------------------------------------
\* Inputs

IdSeq == <<"e1", "e2", "e3", "e4">>

Ids == {IdSeq[k] : k \in DOMAIN IdSeq}

Dates == {"2024.01.01", "2024.07.01", "2025.01.01"}

EmptyRaw == <<>>

RawDates == {<<2024, 1, 1, 0>>, <<2024, 7, 1, 12>>, <<2025, 1, 1, 0>>, EmptyRaw}

BlockEntry == [id : Ids, date : Dates, rawDate : RawDates]

\* The id lists given to the mapper: k consecutive ids of IdSeq taken from
\* any starting point, wrapping around (pairwise different, and not always
\* in ascending order).
IdLists(k) ==
    {[i \in 1..k |-> IdSeq[((i - 1 + r) % Len(IdSeq)) + 1]] : r \in 0..(Len(IdSeq) - 1)}

\* The entry list with the given ids, display dates and ISO strings.
EntryList(ids, dates, raws) ==
    [k \in DOMAIN ids |-> [id |-> ids[k], date |-> dates[k], rawDate |-> raws[k]]]

UniqueIds(es) == \A i, j \in 1..Len(es) : es[i].id = es[j].id => i = j


\* ------------------------------------------------------------------------
\* JavaScript numbers

NaN == <<0, 0>>

Abs(x) == IF x < 0 THEN -x ELSE x

RECURSIVE Gcd(_, _)
Gcd(a, b) == IF b = 0 THEN a ELSE Gcd(b, a % b)

Sign(x) == IF x < 0 THEN -1 ELSE IF x > 0 THEN 1 ELSE 0

\* n/d as a number of the model (d = 0: 0/0 is NaN, x/0 is +-Infinity).
Ratio(n, d) ==
    IF d = 0 THEN <<Sign(n), 0>>
    ELSE LET g == Gcd(Abs(n), Abs(d))
         IN  <<(Sign(d) * n) \div g, Abs(d) \div g>>

Num(k) == <<k, 1>>

IsNaN(x) == x = NaN

IsFinite(x) == x[2] > 0

NumSub(a, b) ==
    IF ~IsFinite(a) \/ ~IsFinite(b)
    THEN (IF IsNaN(a) \/ IsNaN(b) \/ (a = b) THEN NaN
          ELSE IF IsFinite(b) THEN a ELSE <<-b[1], 0>>)
    ELSE Ratio(a[1] * b[2] - b[1] * a[2], a[2] * b[2])

NumDiv(a, b) ==
    IF IsNaN(a) \/ IsNaN(b) THEN NaN
    ELSE IF ~IsFinite(a) THEN (IF IsFinite(b) THEN <<a[1] * (IF b[1] < 0 THEN -1 ELSE 1), 0>> ELSE NaN)
    ELSE IF ~IsFinite(b) THEN Num(0)
    ELSE Ratio(a[1] * b[2], a[2] * b[1])

NumMul(a, b) ==
    IF IsNaN(a) \/ IsNaN(b) THEN NaN
    ELSE IF ~IsFinite(a) \/ ~IsFinite(b)
         THEN (IF a[1] = 0 \/ b[1] = 0 THEN NaN ELSE <<Sign(a[1]) * Sign(b[1]), 0>>)
    ELSE Ratio(a[1] * b[1], a[2] * b[2])

\* a <= b; false when either side is NaN, as in JavaScript.
NumLeq(a, b) ==
    /\ ~IsNaN(a) /\ ~IsNaN(b)
    /\ IF IsFinite(a) /\ IsFinite(b) THEN a[1] * b[2] <= b[1] * a[2]
       ELSE IF IsFinite(a) THEN b[1] > 0
       ELSE IF IsFinite(b) THEN a[1] < 0
       ELSE a[1] <= b[1]

\* ------------------------------------------------------------------------
\* new Date(rawDate).getTime()

\* Days from 1970-01-01 to the civil date y-m-d (proleptic Gregorian).
DaysFromCivil(y, m, d) ==
    LET yy  == IF m <= 2 THEN y - 1 ELSE y
        era == yy \div 400
        yoe == yy - era * 400
        mp  == (m + 9) % 12
        doy == (153 * mp + 2) \div 5 + d - 1
        doe == yoe * 365 + yoe \div 4 - yoe \div 100 + doy
    IN  era * 146097 + doe - 719468

\* The timestamp of an ISO string, in hours; NaN for an unparseable string.
GetTime(raw) ==
    IF Len(raw) # 4 THEN NaN
    ELSE Num(DaysFromCivil(raw[1], raw[2], raw[3]) * 24 + raw[4])


\* ------------------------------------------------------------------------
\* Timeline: derived data

RECURSIVE FilterSeen(_, _)
\* entries.filter(...) with the closure's Set `seen`.
FilterSeen(es, seen) ==
    IF es = <<>> THEN <<>>
    ELSE LET entry == Head(es)
         IN  IF entry.date \in seen
             THEN FilterSeen(Tail(es), seen)
             ELSE <<entry>> \o FilterSeen(Tail(es), seen \cup {entry.date})

RECURSIVE FilterLast(_)
FilterLast(es) ==
    IF es = <<>> THEN <<>>
    ELSE IF \E k \in 2..Len(es) : es[k].date = es[1].date
         THEN FilterLast(Tail(es))
         ELSE <<Head(es)>> \o FilterLast(Tail(es))

\* Variant of UniqueDates: the last entry of each display date is kept.
UniqueDatesKeepLast(es) == FilterLast(es)

UniqueDates(es) == FilterSeen(es, {})

\* Variant of PositionOf: the fraction is not scaled to a percentage.
PositionOfFraction(entry, start, range) ==
    IF range = Num(0) THEN Num(0)
    ELSE NumDiv(NumSub(GetTime(entry.rawDate), start), range)

\* Variant of PositionOf: the operands of the subtraction are exchanged.
PositionOfSwapped(entry, start, range) ==
    IF range = Num(0) THEN Num(0)
    ELSE NumMul(NumDiv(NumSub(start, GetTime(entry.rawDate)), range), Num(100))

\* Variant of PositionOf: no test of range against 0.
PositionOfNoRangeCheck(entry, start, range) ==
    NumMul(NumDiv(NumSub(GetTime(entry.rawDate), start), range), Num(100))

\* The callback of uniqueDates.map: one tick's position.
PositionOf(entry, start, range) ==
    IF range = Num(0) THEN Num(0)
    ELSE NumMul(NumDiv(NumSub(GetTime(entry.rawDate), start), range), Num(100))

Positions(u) ==
    IF Len(u) = 0 THEN <<>>
    ELSE LET start == GetTime(u[1].rawDate)
             end   == GetTime(u[Len(u)].rawDate)
             range == NumSub(end, start)
         IN  [i \in 1..Len(u) |-> PositionOf(u[i], start, range)]

\* ------------------------------------------------------------------------
\* State

null == -1

VARIABLES
    pc,               \* "unmounted" before the first render, then "mounted"
    entries,          \* the entries prop
    entriesRef,       \* identity of the array held by the entries prop
    hoveredIndex,     \* Timeline's state cell
    uniqueDatesMemo,  \* useMemo cell: [deps, value, ref]
    positionsMemo,    \* useMemo cell: [deps, value]
    ticks,            \* Timeline's rendered tick elements
    anchors,          \* ids of the rendered <article> elements, in order
    scrollRef,        \* scrollRef.current
    lastEvent,        \* the event handled last: [type, index, id]
    calls,            \* arguments of the onScrollTo calls made by that event
    scrolled,         \* element ids scrollIntoView was called on by that event
    threw             \* whether that event's handler threw

vars == <<pc, entries, entriesRef, hoveredIndex, uniqueDatesMemo, positionsMemo,
          ticks, anchors, scrollRef, lastEvent, calls, scrolled, threw>>

Event(type, index, id) == [type |-> type, index |-> index, id |-> id]

\* ------------------------------------------------------------------------
\* Rendering

NoMemo == [deps |-> null, value |-> <<>>, ref |-> null]

\* Variant of UseMemoUniqueDates: an empty dependency list, so the value of
\* the first render is kept for ever.
UseMemoUniqueDatesOnce(mounted, memo, es, ref) ==
    IF mounted THEN memo
    ELSE [deps |-> ref, value |-> UniqueDates(es), ref |-> ref]

\* React.useMemo(() => ..., [entries]): reuse the cell while the dependency
\* is the same object, otherwise compute a new array.
UseMemoUniqueDates(mounted, memo, es, ref) ==
    IF mounted /\ memo.deps = ref THEN memo
    ELSE [deps |-> ref, value |-> UniqueDates(es), ref |-> ref]

\* React.useMemo(() => ..., [uniqueDates]).
UseMemoPositions(mounted, memo, uMemo) ==
    IF mounted /\ memo.deps = uMemo.ref THEN memo
    ELSE [deps |-> uMemo.ref, value |-> Positions(uMemo.value), ref |-> uMemo.ref]

\* The JSX of Timeline: one element per unique date.
RenderTicks(u, positions, hovered) ==
    [k \in 1..Len(u) |->
        [key     |-> u[k].id,
         index   |-> k - 1,
         top     |-> IF k \in DOMAIN positions THEN positions[k] ELSE NaN,
         tooltip |-> (hovered = k - 1),
         label   |-> u[k].date,
         id      |-> u[k].id]]

\* Variant of RenderAnchors: the articles are rendered from the unique dates.
RenderAnchorsUnique(es) == [k \in 1..Len(UniqueDates(es)) |-> UniqueDates(es)[k].id]

\* The JSX of LearningJourney: entries.map(entry => <article id={entry.id}>).
RenderAnchors(es) == [k \in 1..Len(es) |-> es[k].id]

\* One render of Timeline with the given props and state.
RenderTimeline(mounted, es, ref, hovered) ==
    LET u == UseMemoUniqueDates(mounted, uniqueDatesMemo, es, ref)
        p == UseMemoPositions(mounted, positionsMemo, u)
    IN  /\ uniqueDatesMemo' = u
        /\ positionsMemo' = p
        /\ ticks' = RenderTicks(u.value, p.value, hovered)

\* The ref handed to <ScrollArea ref={scrollRef}> once it is mounted.
ScrollAreaRef == "viewport"

\* ------------------------------------------------------------------------
\* handleScrollTo

\* document.getElementById(id) over the rendered articles.
GetElementById(id) ==
    IF \E k \in 1..Len(anchors) : anchors[k] = id THEN id ELSE "null"

\* Variant of HandleScrollTo: the element is not tested before it is used.
HandleScrollToUnchecked(id) ==
    LET element == GetElementById(id)
    IN  IF element # "null"
        THEN <<(<<[element |-> element, behavior |-> "smooth", block |-> "start"]>>), FALSE>>
        ELSE <<(<<>>), TRUE>>

\* The effect of handleScrollTo(id): <<scrollIntoView targets, threw>>.
HandleScrollTo(id) ==
    LET element == GetElementById(id)
    IN  IF element # "null" /\ scrollRef # "null"
        THEN <<(<<[element |-> element, behavior |-> "smooth", block |-> "start"]>>), FALSE>>
        ELSE <<(<<>>), FALSE>>

\* ------------------------------------------------------------------------
\* The entry lists the parent passes while the component is in use: the
\* lists made of these four journal entries (two of them on the same day).

JourneyEntries ==
    {[id |-> "e1", date |-> "2024.01.01", rawDate |-> <<2024, 1, 1, 0>>],
     [id |-> "e2", date |-> "2024.01.01", rawDate |-> <<2024, 1, 1, 0>>],
     [id |-> "e3", date |-> "2024.07.01", rawDate |-> <<2024, 7, 1, 12>>],
     [id |-> "e4", date |-> "2025.01.01", rawDate |-> <<2025, 1, 1, 0>>]}

JourneyLists ==
    UNION {{es \in [1..k -> JourneyEntries] : UniqueIds(es)} : k \in 0..MaxLen}

\* ------------------------------------------------------------------------
\* Initial states: the component is about to be rendered for the first time.

Unmounted(lists) ==
    /\ pc = "unmounted"
    /\ entries \in lists
    /\ entriesRef = 0
    /\ hoveredIndex = null
    /\ uniqueDatesMemo = NoMemo
    /\ positionsMemo = NoMemo
    /\ ticks = <<>>
    /\ anchors = <<>>
    /\ scrollRef = "null"
    /\ lastEvent = Event("none", null, "")
    /\ calls = <<>>
    /\ scrolled = <<>>
    /\ threw = FALSE

Init == Unmounted(JourneyLists)

\* Every list of at most MaxLen entries over Dates and RawDates, with the
\* ids of IdLists.
InitMapper ==
    \E k \in 0..MaxLen :
        \E ids \in IdLists(k) :
            \E dates \in [1..k -> Dates], raws \in [1..k -> RawDates] :
                Unmounted({EntryList(ids, dates, raws)})

\* ------------------------------------------------------------------------
\* Actions

\* First render of LearningJourney and Timeline.
Mount ==
    /\ pc = "unmounted"
    /\ pc' = "mounted"
    /\ hoveredIndex' = null
    /\ RenderTimeline(FALSE, entries, entriesRef, null)
    /\ anchors' = RenderAnchors(entries)
    /\ scrollRef' = ScrollAreaRef
    /\ lastEvent' = Event("mount", null, "")
    /\ calls' = <<>>
    /\ scrolled' = <<>>
    /\ threw' = FALSE
    /\ UNCHANGED <<entries, entriesRef>>

\* Variant of MouseEnter: the index is stored only when no tick is hovered.
MouseEnterIfNone(i) ==
    /\ pc = "mounted"
    /\ i \in 0..(Len(ticks) - 1)
    /\ hoveredIndex' = (IF hoveredIndex = null THEN i ELSE hoveredIndex)
    /\ RenderTimeline(TRUE, entries, entriesRef, hoveredIndex')
    /\ lastEvent' = Event("enter", i, "")
    /\ calls' = <<>>
    /\ scrolled' = <<>>
    /\ threw' = FALSE
    /\ UNCHANGED <<pc, entries, entriesRef, anchors, scrollRef>>

\* onMouseEnter of the tick rendered at index i, and the re-render of
\* Timeline that setHoveredIndex schedules.
MouseEnter(i) ==
    /\ pc = "mounted"
    /\ i \in 0..(Len(ticks) - 1)
    /\ hoveredIndex' = i
    /\ RenderTimeline(TRUE, entries, entriesRef, i)
    /\ lastEvent' = Event("enter", i, "")
    /\ calls' = <<>>
    /\ scrolled' = <<>>
    /\ threw' = FALSE
    /\ UNCHANGED <<pc, entries, entriesRef, anchors, scrollRef>>

\* onMouseLeave of the tick rendered at index i.
MouseLeave(i) ==
    /\ pc = "mounted"
    /\ i \in 0..(Len(ticks) - 1)
    /\ hoveredIndex' = null
    /\ RenderTimeline(TRUE, entries, entriesRef, null)
    /\ lastEvent' = Event("leave", i, "")
    /\ calls' = <<>>
    /\ scrolled' = <<>>
    /\ threw' = FALSE
    /\ UNCHANGED <<pc, entries, entriesRef, anchors, scrollRef>>

\* Variant of Click: the clicked tick also becomes the hovered one.
ClickSelects(i) ==
    /\ pc = "mounted"
    /\ i \in 0..(Len(ticks) - 1)
    /\ LET id == ticks[i + 1].id
           r  == HandleScrollTo(id)
       IN  /\ calls' = <<id>>
           /\ scrolled' = r[1]
           /\ threw' = r[2]
           /\ lastEvent' = Event("click", i, id)
    /\ hoveredIndex' = i
    /\ RenderTimeline(TRUE, entries, entriesRef, i)
    /\ UNCHANGED <<pc, entries, entriesRef, anchors, scrollRef>>

\* onClick of the button of the tick rendered at index i:
\* onScrollTo(entry.id), which is handleScrollTo.
Click(i) ==
    /\ pc = "mounted"
    /\ i \in 0..(Len(ticks) - 1)
    /\ LET id == ticks[i + 1].id
           r  == HandleScrollTo(id)
       IN  /\ calls' = <<id>>
           /\ scrolled' = r[1]
           /\ threw' = r[2]
           /\ lastEvent' = Event("click", i, id)
    /\ UNCHANGED <<pc, entries, entriesRef, hoveredIndex, uniqueDatesMemo,
                   positionsMemo, ticks, anchors, scrollRef>>

\* The parent renders LearningJourney with a new entries array.
SetEntries(es) ==
    /\ pc = "mounted"
    /\ entriesRef < MaxRef
    /\ entries' = es
    /\ entriesRef' = entriesRef + 1
    /\ RenderTimeline(TRUE, es, entriesRef + 1, hoveredIndex)
    /\ anchors' = RenderAnchors(es)
    /\ lastEvent' = Event("props", null, "")
    /\ calls' = <<>>
    /\ scrolled' = <<>>
    /\ threw' = FALSE
    /\ UNCHANGED <<pc, hoveredIndex, scrollRef>>

\* The parent renders LearningJourney again with the same entries array.
Rerender ==
    /\ pc = "mounted"
    /\ RenderTimeline(TRUE, entries, entriesRef, hoveredIndex)
    /\ anchors' = RenderAnchors(entries)
    /\ lastEvent' = Event("rerender", null, "")
    /\ calls' = <<>>
    /\ scrolled' = <<>>
    /\ threw' = FALSE
    /\ UNCHANGED <<pc, entries, entriesRef, hoveredIndex, scrollRef>>

\* handleScrollTo called with an arbitrary id.
ScrollToEntry(id) ==
    /\ pc = "mounted"
    /\ LET r == HandleScrollTo(id)
       IN  /\ scrolled' = r[1]
           /\ threw' = r[2]
    /\ calls' = <<>>
    /\ lastEvent' = Event("scrollTo", null, id)
    /\ UNCHANGED <<pc, entries, entriesRef, hoveredIndex, uniqueDatesMemo,
                   positionsMemo, ticks, anchors, scrollRef>>

Next ==
    \/ Mount
    \/ \E i \in 0..(MaxLen - 1) : MouseEnter(i)
    \/ \E i \in 0..(MaxLen - 1) : MouseLeave(i)
    \/ \E i \in 0..(MaxLen - 1) : Click(i)
    \/ \E es \in JourneyLists : SetEntries(es)
    \/ Rerender
    \/ \E id \in Ids : ScrollToEntry(id)

Spec == Init /\ [][Next]_vars

\* The mapper and the renderer on every entry list: one first render.
NextMapper == Mount

SpecMapper == InitMapper /\ [][NextMapper]_vars

\* ------------------------------------------------------------------------
\* Vocabulary of the properties

Mounted == pc = "mounted"

uniqueDates == uniqueDatesMemo.value

positions == positionsMemo.value

DateSet(es) == {es[k].date : k \in 1..Len(es)}

\* Indices of the entries that are the first of their display date.
FirstOfDate(es) ==
    {i \in 1..Len(es) : \A j \in 1..(i - 1) : es[j].date # es[i].date}

StrictlyIncreasing(f) == \A a, b \in DOMAIN f : a < b => f[a] < f[b]

Parseable(es) == \A k \in 1..Len(es) : IsFinite(GetTime(es[k].rawDate))

TimeOf(u, k) == GetTime(u[k].rawDate)

\* u is not empty and its first and last timestamps are numbers.
EndsParseable(u) ==
    /\ Len(u) > 0
    /\ IsFinite(TimeOf(u, 1))
    /\ IsFinite(TimeOf(u, Len(u)))

RangeIsZero(u) == EndsParseable(u) /\ TimeOf(u, 1) = TimeOf(u, Len(u))

\* Timestamp k lies between the first and the last one, whichever is larger.
Between(u, k) ==
    \/ NumLeq(TimeOf(u, 1), TimeOf(u, k)) /\ NumLeq(TimeOf(u, k), TimeOf(u, Len(u)))
    \/ NumLeq(TimeOf(u, Len(u)), TimeOf(u, k)) /\ NumLeq(TimeOf(u, k), TimeOf(u, 1))

InPercentRange(x) == NumLeq(Num(0), x) /\ NumLeq(x, Num(100))

AnchorIds == {anchors[k] : k \in 1..Len(anchors)}

\* ------------------------------------------------------------------------
\* C1: uniqueDates is the subsequence of the entries made of the first entry
\* of each display date, in input order: one element per distinct display
\* date, and empty for an empty list.
C1_UniqueDatesFirstOccurrences ==
    Mounted =>
        /\ Len(uniqueDates) = Cardinality(FirstOfDate(entries))
        /\ \E f \in [1..Len(uniqueDates) -> FirstOfDate(entries)] :
               /\ StrictlyIncreasing(f)
               /\ \A k \in 1..Len(uniqueDates) : uniqueDates[k] = entries[f[k]]
        /\ Len(uniqueDates) = Cardinality(DateSet(entries))
        /\ DateSet(uniqueDates) = DateSet(entries)
        /\ (entries = <<>> => uniqueDates = <<>>)

\* A list with dates A, B, A has been mapped: the third entry is dropped.
C1_Witness ==
    /\ Mounted
    /\ Len(entries) = 3
    /\ entries[1].date = entries[3].date
    /\ entries[1].date # entries[2].date
    /\ uniqueDates = <<entries[1], entries[2]>>

\* C2 as stated, on the lists the data model admits (parseable timestamps):
\* with at least two distinct display dates the first position is 0 and the
\* last is 100.
C2_FirstZeroLastHundred ==
    (Mounted /\ Parseable(entries) /\ Cardinality(DateSet(entries)) >= 2) =>
        /\ positions[1] = Num(0)
        /\ positions[Len(positions)] = Num(100)

\* C2 amended: with at least two distinct display dates whose first and last
\* unique-date entries carry parseable, different timestamps, the first
\* position is 0 and the last is 100.
C2_FirstZeroLastHundredWhenRangeNonZero ==
    (/\ Mounted
     /\ Cardinality(DateSet(entries)) >= 2
     /\ EndsParseable(uniqueDates)
     /\ ~RangeIsZero(uniqueDates)) =>
        /\ Len(positions) = Len(uniqueDates)
        /\ positions[1] = Num(0)
        /\ positions[Len(positions)] = Num(100)
        /\ ticks[1].top = Num(0)
        /\ ticks[Len(ticks)].top = Num(100)

\* Three ticks over a non-zero range, the last one placed at 100.
C2_Witness ==
    /\ Mounted
    /\ Len(uniqueDates) = 3
    /\ EndsParseable(uniqueDates)
    /\ ~RangeIsZero(uniqueDates)
    /\ positions[3] = Num(100)

\* C3 as stated: with parseable timestamps every position lies in [0, 100].
C3_PositionsInPercentRange ==
    (Mounted /\ Parseable(entries)) =>
        \A k \in 1..Len(positions) : InPercentRange(positions[k])

\* C3 amended: with parseable timestamps, and either a zero range or every
\* unique-date timestamp lying between the first and the last one (as in a
\* chronologically ordered list), every position, and the top of every
\* rendered tick, lies in [0, 100].
C3_PositionsInPercentRangeWhenOrdered ==
    (/\ Mounted
     /\ Parseable(entries)
     /\ \/ RangeIsZero(uniqueDates)
        \/ \A k \in 1..Len(uniqueDates) : Between(uniqueDates, k)) =>
        /\ Len(positions) = Len(uniqueDates)
        /\ \A k \in 1..Len(positions) :
               /\ InPercentRange(positions[k])
               /\ ticks[k].top = positions[k]

\* Three ticks in chronological order, the middle one strictly inside.
C3_Witness ==
    /\ Mounted
    /\ Parseable(entries)
    /\ Len(uniqueDates) = 3
    /\ \A k \in 1..3 : Between(uniqueDates, k)
    /\ ~InPercentRange(NumSub(positions[2], Num(100)))
    /\ positions[2] # Num(0)

\* C4: when the first and the last unique date have the same timestamp
\* (range is 0), every position is 0 and nothing is thrown.
C4_ZeroRangeAllZero ==
    (Mounted /\ RangeIsZero(uniqueDates)) =>
        /\ Len(positions) = Len(uniqueDates)
        /\ \A k \in 1..Len(positions) :
               /\ positions[k] = Num(0)
               /\ ticks[k].top = Num(0)
        /\ ~threw

\* Three ticks, the first and last at the same instant, the middle one not.
C4_Witness ==
    /\ Mounted
    /\ Len(uniqueDates) = 3
    /\ RangeIsZero(uniqueDates)
    /\ TimeOf(uniqueDates, 2) # TimeOf(uniqueDates, 1)
    /\ positions = <<Num(0), Num(0), Num(0)>>

\* C8: the renderer emits one anchor per entry, with the entry's id, in
\* input order, whatever the display dates are.
C8_AnchorsFollowEntries ==
    Mounted =>
        /\ Len(anchors) = Len(entries)
        /\ \A k \in 1..Len(entries) : anchors[k] = entries[k].id

\* Three entries, two of them on the same date, ids not in ascending order.
C8_Witness ==
    /\ Mounted
    /\ Len(entries) = 3
    /\ entries[1].date = entries[2].date
    /\ entries[1].id = "e4"
    /\ anchors = <<"e4", "e1", "e2">>

\* ------------------------------------------------------------------------
\* Indices of the ticks whose tooltip is rendered visible.
ShownTooltips == {ticks[k].index : k \in {j \in 1..Len(ticks) : ticks[j].tooltip}}

\* C5: hoveredIndex starts as none; a pointer-enter on tick i makes it i
\* whatever it was, a pointer-leave makes it none; at most one tooltip is
\* visible, and a visible tooltip is that of the tick at hoveredIndex.
C5_HoverFollowsPointer ==
    /\ hoveredIndex = null
    /\ [][/\ lastEvent'.type = "mount" => hoveredIndex' = null
          /\ lastEvent'.type = "enter" => hoveredIndex' = lastEvent'.index
          /\ lastEvent'.type = "leave" => hoveredIndex' = null
          /\ Cardinality(ShownTooltips') <= 1
          /\ \A i \in 0..(Len(ticks') - 1) :
                 i \in ShownTooltips' <=> i = hoveredIndex']_vars

\* The pointer has entered the second tick and its tooltip is the one shown.
C5_Witness ==
    /\ lastEvent = Event("enter", 1, "")
    /\ hoveredIndex = 1
    /\ Len(ticks) = 3
    /\ ShownTooltips = {1}

\* C6: a click on a tick calls onScrollTo once, with the id of that tick's
\* entry, and leaves hoveredIndex, uniqueDates and positions as they were.
C6_ClickOnlyCallsBack ==
    [][lastEvent'.type = "click" =>
          /\ lastEvent'.index \in 0..(Len(uniqueDates) - 1)
          /\ calls' = <<uniqueDates[lastEvent'.index + 1].id>>
          /\ hoveredIndex' = hoveredIndex
          /\ uniqueDatesMemo' = uniqueDatesMemo
          /\ positionsMemo' = positionsMemo
          /\ ticks' = ticks]_vars

\* The third tick (entry e4) was clicked while the first one was hovered.
C6_Witness ==
    /\ lastEvent = Event("click", 2, "e4")
    /\ calls = <<"e4">>
    /\ hoveredIndex = 0
    /\ scrolled # <<>>

\* C7: handleScrollTo with an id that has no rendered anchor scrolls nothing,
\* changes no state and does not throw; with the id of a rendered anchor it
\* scrolls that anchor to the start of the viewport.
C7_ScrollToMissingIsNoOp ==
    [][lastEvent'.type \in {"scrollTo", "click"} =>
          /\ ~threw'
          /\ lastEvent'.id \notin AnchorIds =>
                 /\ scrolled' = <<>>
                 /\ UNCHANGED <<pc, entries, entriesRef, hoveredIndex, uniqueDatesMemo,
                                positionsMemo, ticks, anchors, scrollRef>>
          /\ lastEvent'.id \in AnchorIds =>
                 /\ Len(scrolled') = 1
                 /\ scrolled'[1].element = lastEvent'.id
                 /\ scrolled'[1].block = "start"]_vars

\* handleScrollTo was called with an id no rendered article carries.
C7_Witness ==
    /\ lastEvent.type = "scrollTo"
    /\ lastEvent.id \notin AnchorIds
    /\ anchors # <<>>
    /\ scrolled = <<>>
    /\ ~threw

\* C9: what is rendered is what the mapper derives from the current entry
\* list, also after the list was replaced.
C9_TicksDerivedFromCurrentEntries ==
    Mounted =>
        LET u == UniqueDates(entries)
            p == Positions(u)
        IN  /\ uniqueDates = u
            /\ positions = p
            /\ Len(ticks) = Len(u)
            /\ \A k \in 1..Len(u) :
                   /\ ticks[k].id = u[k].id
                   /\ ticks[k].label = u[k].date
                   /\ ticks[k].top = p[k]

\* The entry list was replaced twice and the ticks are those of the third.
C9_Witness ==
    /\ lastEvent.type = "props"
    /\ entriesRef = 2
    /\ uniqueDatesMemo.deps = 2
    /\ Len(entries) = 3
    /\ Len(ticks) = 2

\* C10: hoveredIndex is none or an index into the unique dates of the current
\* entry list.
C10_HoveredIndexInRange ==
    hoveredIndex = null \/ hoveredIndex \in 0..(Len(UniqueDates(entries)) - 1)

=============================================================================
